---- MODULE Spec2Model ----
(***************************************************************************)
(* A model of app.py: the contact scraper (fetch -> parse -> show ->       *)
(* store).  Text is a sequence of one-character strings, so that           *)
(* str.strip() is computed and not assumed.  A page is a sequence of       *)
(* markup tokens (one tag with its content per token); the two regular     *)
(* expressions of parse_contacts are matched over the tokens with the      *)
(* leftmost, non-greedy, backtracking order of re.finditer.  The program   *)
(* is single-threaded: every call (start-up, one press of the fetch        *)
(* button) runs to completion and is one action, and the calls it made are *)
(* kept, in order, in log.                                                 *)
(***************************************************************************)
EXTENDS Integers, Sequences, FiniteSets, TLC

VARIABLES
    phase,      \* "off": no window (not started, closed, or start-up crashed); "idle": in mainloop
    tree,       \* self.tree: the rows of the Treeview, in order
    db,         \* contacts.db: [hasTable, rows], the committed content
    op,         \* the most recent call: "none", "setup", "fetch", "quit"
    log,        \* the events of the most recent call, in order
    raised,     \* the exception that left the most recent call ("none" when it returned)
    contacts,   \* fetch_contacts' local `contacts`: [isNone, items]
    html,       \* parse_contacts' argument (the extractor on its own)
    parsed,     \* whether parse_contacts has run on html
    result,     \* what parse_contacts returned
    patterns    \* the patterns parse_contacts applied, in order

vars == <<phase, tree, db, op, log, raised, contacts, html, parsed, result, patterns>>
appVars == <<phase, tree, db, op, log, raised, contacts>>
parseVars == <<html, parsed, result, patterns>>

\* The longest page, in blocks (a teacher container or a table row each).
MaxBlocks == 2

-----------------------------------------------------------------------------
(* Text *)

Whitespace == {" ", "\t", "\n"}

NA == <<"N", "/", "A">>

RECURSIVE LStrip(_)
LStrip(s) == IF s # <<>> /\ Head(s) \in Whitespace THEN LStrip(Tail(s)) ELSE s

RECURSIVE RStrip(_)
RStrip(s) ==
    IF s # <<>> /\ s[Len(s)] \in Whitespace
    THEN RStrip(SubSeq(s, 1, Len(s) - 1))
    ELSE s

\* str.strip()
Strip(s) == RStrip(LStrip(s))

\* Variant: the empty group is kept as it is (no 'N/A').
OrNAKeep(s) == s

\* `x if x else 'N/A'`
OrNA(s) == IF s # <<>> THEN s ELSE NA

\* The dict appended for one match: each group stripped, 'N/A' for an empty one.
MakeContact(name, title, email) ==
    [name |-> OrNA(Strip(name)), title |-> OrNA(Strip(title)), email |-> OrNA(Strip(email))]

-----------------------------------------------------------------------------
(* Markup tokens.  a and b are the token's texts (<<>> when it has none). *)

DivTeacher == [t |-> "div_teacher", a |-> <<>>, b |-> <<>>]   \* <div class="teacher">
PName(s) == [t |-> "p_name", a |-> s, b |-> <<>>]             \* <p class="name">s</p>
PTitle(s) == [t |-> "p_title", a |-> s, b |-> <<>>]           \* <p class="title">s</p>
MailLink(href, text) == [t |-> "a_mailto", a |-> href, b |-> text]  \* <a href="mailto:href">text</a>
DivEnd == [t |-> "div_end", a |-> <<>>, b |-> <<>>]           \* </div>
Tr == [t |-> "tr", a |-> <<>>, b |-> <<>>]                    \* <tr>
Td(s) == [t |-> "td", a |-> s, b |-> <<>>]                    \* <td>s</td>
TdMail(e) == [t |-> "td_mailto", a |-> e, b |-> e]            \* <td><a href="mailto:e">e</a></td>
TrEnd == [t |-> "tr_end", a |-> <<>>, b |-> <<>>]             \* </tr>

\* A token with <a href="mailto:a">b</a> in it; [^"']+ needs one character at least.
IsLink(tok) == tok.t \in {"a_mailto", "td_mailto"} /\ tok.a # <<>>

IsCell(tok) == tok.t \in {"td", "td_mailto"}

Min(S) == CHOOSE x \in S : \A y \in S : x <= y

\* The first index from `from` on whose token has type t; 0 when there is none.
FirstOf(page, from, t) ==
    LET S == {j \in from..Len(page) : page[j].t = t}
    IN IF from >= 1 /\ S # {} THEN Min(S) ELSE 0

-----------------------------------------------------------------------------
(* parse_contacts *)

NoMatch == [found |-> FALSE, name |-> <<>>, title |-> <<>>, email |-> <<>>, end |-> 0]

\* The links after the title whose address some link from there on shows as its
\* text ((?P=email)), with a </div> after it.
TeacherLinks(page, j2) ==
    {j \in (j2 + 1)..Len(page) :
        /\ IsLink(page[j])
        /\ \E k \in j..Len(page) :
              /\ IsLink(page[k])
              /\ page[k].b = page[j].a
              /\ FirstOf(page, k + 1, "div_end") # 0}

\* teacher_pattern matched with its <div class="teacher"> at i: each .*? takes the
\* shortest span that lets the rest match.
TeacherMatchAt(page, i) ==
    IF page[i].t # "div_teacher" THEN NoMatch
    ELSE
    LET j1 == FirstOf(page, i + 1, "p_name")
        j2 == IF j1 = 0 THEN 0 ELSE FirstOf(page, j1 + 1, "p_title")
    IN IF j2 = 0 \/ TeacherLinks(page, j2) = {} THEN NoMatch
       ELSE
       LET j3 == Min(TeacherLinks(page, j2))
           k == Min({k \in j3..Len(page) :
                         /\ IsLink(page[k])
                         /\ page[k].b = page[j3].a
                         /\ FirstOf(page, k + 1, "div_end") # 0})
       IN [found |-> TRUE, name |-> page[j1].a, title |-> page[j2].a,
           email |-> page[j3].a, end |-> FirstOf(page, k + 1, "div_end")]

\* table_pattern matched with its <tr> at i: three adjacent cells (\s* only
\* between them), the third one with the first mailto: after its tag, up to the
\* next </td>.  The first two cells hold text.
TableMatchAt(page, i) ==
    IF page[i].t # "tr" THEN NoMatch
    ELSE
    LET C == {c \in (i + 1)..(Len(page) - 2) :
                 /\ page[c].t = "td"
                 /\ page[c + 1].t = "td"
                 /\ IsCell(page[c + 2])
                 /\ \E m \in (c + 2)..Len(page) :
                       /\ IsLink(page[m])
                       /\ \E e \in m..Len(page) :
                             IsCell(page[e]) /\ (e = m => page[m].t = "td_mailto")}
    IN IF C = {} THEN NoMatch
       ELSE
       LET c == Min(C)
           m == Min({m \in (c + 2)..Len(page) :
                         /\ IsLink(page[m])
                         /\ \E e \in m..Len(page) :
                               IsCell(page[e]) /\ (e = m => page[m].t = "td_mailto")})
           e == Min({e \in m..Len(page) :
                         IsCell(page[e]) /\ (e = m => page[m].t = "td_mailto")})
       IN [found |-> TRUE, name |-> page[c].a, title |-> page[c + 1].a,
           email |-> page[m].a, end |-> e]

\* One pattern tried at i.
MatchAt(page, i, pattern) ==
    IF pattern = "teacher" THEN TeacherMatchAt(page, i) ELSE TableMatchAt(page, i)

\* pattern.finditer(html) and the loop over it: the matches from left to right,
\* none overlapping, each appended as a contact.
RECURSIVE FindIter(_, _, _)
FindIter(page, pos, pattern) ==
    LET S == {i \in pos..Len(page) : MatchAt(page, i, pattern).found}
    IN IF S = {} THEN <<>>
       ELSE LET m == MatchAt(page, Min(S), pattern)
            IN <<MakeContact(m.name, m.title, m.email)>> \o FindIter(page, m.end + 1, pattern)

TeacherMatches(page) == FindIter(page, 1, "teacher")

TableMatches(page) == FindIter(page, 1, "table")

\* Variant: the table pattern is applied whatever the teacher pattern found.
ParseRunBoth(page) ==
    [contacts |-> TeacherMatches(page) \o TableMatches(page),
     patterns |-> <<"teacher", "table">>]

\* parse_contacts with the patterns it applied: the table pattern only
\* `if not contacts`.
ParseRun(page) ==
    LET primary == TeacherMatches(page)
    IN IF primary = <<>>
       THEN [contacts |-> TableMatches(page), patterns |-> <<"teacher", "table">>]
       ELSE [contacts |-> primary, patterns |-> <<"teacher">>]

ParseContacts(page) == ParseRun(page).contacts

-----------------------------------------------------------------------------
(* The pages: blocks rendered to tokens. *)

\* The staff a page may list, as the page writes them: a blank name, an empty
\* title, a blank address, white space around a text; two share an address.
Staff ==
    {[name |-> <<" ">>, title |-> <<"t", "\n">>, email |-> <<"a">>],
     [name |-> <<" ", "x", " ">>, title |-> <<>>, email |-> <<"a">>],
     [name |-> <<" ", "x", " ">>, title |-> <<>>, email |-> <<" ">>]}

\* What the link of a container may show as its text.
LinkTexts == {<<"a">>, <<" ">>}

\* A teacher container (its link's text may differ from its address) or a
\* three-cell table row.
Blocks ==
    {[kind |-> "teacher", name |-> p.name, title |-> p.title, href |-> p.email, text |-> x] :
        p \in Staff, x \in LinkTexts}
    \cup
    {[kind |-> "row", name |-> p.name, title |-> p.title, href |-> p.email, text |-> p.email] :
        p \in Staff}

Render(block) ==
    IF block.kind = "teacher"
    THEN <<DivTeacher, PName(block.name), PTitle(block.title),
           MailLink(block.href, block.text), DivEnd>>
    ELSE <<Tr, Td(block.name), Td(block.title), TdMail(block.href), TrEnd>>

RECURSIVE RenderAll(_)
RenderAll(blocks) ==
    IF blocks = <<>> THEN <<>> ELSE Render(Head(blocks)) \o RenderAll(Tail(blocks))

BlockSeqs == UNION {[1..n -> Blocks] : n \in 0..MaxBlocks}

Pages == {RenderAll(b) : b \in BlockSeqs}

\* What parse_contacts returns over the pages a server may send.
ParsedPages == {ParseContacts(p) : p \in Pages}

-----------------------------------------------------------------------------
(* The store *)

E(ev, arg) == [ev |-> ev, arg |-> arg]

\* iid INTEGER PRIMARY KEY AUTOINCREMENT
NextId(rows) == IF rows = <<>> THEN 1 ELSE rows[Len(rows)].iid + 1

\* Where sqlite3 fails in one call, if it does.
SetupFaults == {"none", "connect", "execute"}

NoFault == [at |-> "none", k |-> 0]

\* save_to_database is called with contacts only.
SaveFaults(list) ==
    IF list = <<>> THEN {NoFault}
    ELSE {[at |-> a, k |-> 0] : a \in {"none", "connect", "commit"}}
         \cup {[at |-> "execute", k |-> k] : k \in 1..Len(list)}

\* setup_database: [db, log, raised].  When connect raises, `conn` is unbound in
\* the finally clause and conn.close() raises UnboundLocalError.
SetupDatabase(store, fault) ==
    CASE fault = "connect" ->
            [db |-> store, raised |-> "UnboundLocalError",
             log |-> <<E("connect", "OperationalError"), E("showerror", "DbError")>>]
      [] fault = "execute" ->
            [db |-> store, raised |-> "none",
             log |-> <<E("connect", "ok"), E("execute", "OperationalError"),
                       E("showerror", "DbError"), E("close", "ok")>>]
      [] OTHER ->
            [db |-> [store EXCEPT !.hasTable = TRUE], raised |-> "none",
             log |-> <<E("connect", "ok"), E("execute", "ok"), E("commit", "ok"),
                       E("close", "ok")>>]

\* Variant: the email column is not UNIQUE.
InsertNoUnique(rows, hasTable, contact, fails) ==
    IF ~hasTable \/ fails
    THEN [rows |-> rows, outcome |-> "OperationalError"]
    ELSE [rows |-> Append(rows, [iid |-> NextId(rows), name |-> contact.name,
                                 title |-> contact.title, email |-> contact.email]),
          outcome |-> "ok"]

\* One cursor.execute(INSERT ...) on the rows of the open transaction.
Insert(rows, hasTable, contact, fails) ==
    IF ~hasTable \/ fails
    THEN [rows |-> rows, outcome |-> "OperationalError"]
    ELSE IF \E j \in 1..Len(rows) : rows[j].email = contact.email
    THEN [rows |-> rows, outcome |-> "IntegrityError"]
    ELSE [rows |-> Append(rows, [iid |-> NextId(rows), name |-> contact.name,
                                 title |-> contact.title, email |-> contact.email]),
          outcome |-> "ok"]

\* Variant: IntegrityError ends the loop (break, not continue).
RECURSIVE InsertLoopBreak(_, _, _, _, _)
InsertLoopBreak(list, i, rows, hasTable, fault) ==
    IF i > Len(list) THEN [rows |-> rows, log |-> <<>>, failed |-> FALSE]
    ELSE
    LET ins == Insert(rows, hasTable, list[i], fault.at = "execute" /\ fault.k = i)
    IN IF ins.outcome = "OperationalError"
       THEN [rows |-> rows, log |-> <<E("execute", ins.outcome)>>, failed |-> TRUE]
       ELSE IF ins.outcome = "IntegrityError"
       THEN [rows |-> rows, log |-> <<E("execute", ins.outcome)>>, failed |-> FALSE]
       ELSE LET rest == InsertLoopBreak(list, i + 1, ins.rows, hasTable, fault)
            IN [rows |-> rest.rows, log |-> <<E("execute", ins.outcome)>> \o rest.log,
                failed |-> rest.failed]

\* `for contact in contacts` from the i-th contact on: IntegrityError is caught
\* inside the loop (continue), any other sqlite3.Error leaves it.
RECURSIVE InsertLoop(_, _, _, _, _)
InsertLoop(list, i, rows, hasTable, fault) ==
    IF i > Len(list) THEN [rows |-> rows, log |-> <<>>, failed |-> FALSE]
    ELSE
    LET ins == Insert(rows, hasTable, list[i], fault.at = "execute" /\ fault.k = i)
    IN IF ins.outcome = "OperationalError"
       THEN [rows |-> rows, log |-> <<E("execute", ins.outcome)>>, failed |-> TRUE]
       ELSE LET rest == InsertLoop(list, i + 1, ins.rows, hasTable, fault)
            IN [rows |-> rest.rows, log |-> <<E("execute", ins.outcome)>> \o rest.log,
                failed |-> rest.failed]

\* save_to_database: [db, log, raised].  Nothing is kept of a transaction that
\* was not committed when the connection is closed.
SaveToDatabase(list, store, fault) ==
    IF fault.at = "connect"
    THEN [db |-> store, raised |-> "UnboundLocalError",
          log |-> <<E("connect", "OperationalError"), E("showerror", "DbError")>>]
    ELSE
    LET loop == InsertLoop(list, 1, store.rows, store.hasTable, fault)
    IN IF loop.failed
       THEN [db |-> store, raised |-> "none",
             log |-> <<E("connect", "ok")>> \o loop.log
                     \o <<E("showerror", "DbError"), E("close", "ok")>>]
       ELSE IF fault.at = "commit"
       THEN [db |-> store, raised |-> "none",
             log |-> <<E("connect", "ok")>> \o loop.log
                     \o <<E("commit", "OperationalError"), E("showerror", "DbError"),
                          E("close", "ok")>>]
       ELSE [db |-> [store EXCEPT !.rows = loop.rows], raised |-> "none",
             log |-> <<E("connect", "ok")>> \o loop.log
                     \o <<E("commit", "ok"), E("close", "ok")>>]

-----------------------------------------------------------------------------
(* The fetcher *)

\* What requests.get / raise_for_status may raise, each with the classes it is
\* an instance of.
Failures == {"HTTPError", "ConnectionError", "ConnectTimeout", "ReadTimeout", "TooManyRedirects"}

Bases(exc) ==
    CASE exc = "HTTPError" -> {"HTTPError", "RequestException"}
      [] exc = "ConnectionError" -> {"ConnectionError", "RequestException"}
      [] exc = "ConnectTimeout" -> {"ConnectTimeout", "ConnectionError", "Timeout", "RequestException"}
      [] exc = "ReadTimeout" -> {"ReadTimeout", "Timeout", "RequestException"}
      [] OTHER -> {exc, "RequestException"}

\* The except clauses of scrape_contacts, in order, with the title each shows.
ExceptClauses ==
    <<[class |-> "HTTPError", title |-> "HttpError"],
      [class |-> "ConnectionError", title |-> "ConnectionError"],
      [class |-> "Timeout", title |-> "TimeoutError"],
      [class |-> "RequestException", title |-> "RequestError"]>>

\* Variant: `except RequestException` comes first and catches everything.
HandlerGenericFirst(exc) == "RequestError"

\* The first clause that catches exc.
Handler(exc) ==
    ExceptClauses[Min({i \in 1..Len(ExceptClauses) : ExceptClauses[i].class \in Bases(exc)})].title

None == [isNone |-> TRUE, items |-> <<>>]
Some(list) == [isNone |-> FALSE, items |-> list]

\* scrape_contacts: [ret, log].  resp is what the GET did: an exception, or a
\* page whose parse is resp.contacts.
ScrapeContacts(resp) ==
    IF resp.exc # "none"
    THEN [ret |-> None, log |-> <<E("get", resp.exc), E("showerror", Handler(resp.exc))>>]
    ELSE [ret |-> Some(resp.contacts), log |-> <<E("get", "ok"), E("parse_contacts", "ok")>>]

\* No request is sent.
NoResponse == [exc |-> "ConnectionError", contacts |-> <<>>]

Responses ==
    {[exc |-> x, contacts |-> <<>>] : x \in Failures}
    \cup {[exc |-> "none", contacts |-> c] : c \in ParsedPages}

-----------------------------------------------------------------------------
(* The window *)

Urls == {<<>>, <<" ">>, <<"u">>}

\* tree.insert('', tk.END, values=...) for every contact.
RECURSIVE DisplayContacts(_, _)
DisplayContacts(list, rows) ==
    IF list = <<>> THEN [tree |-> rows, log |-> <<>>]
    ELSE LET c == Head(list)
             rest == DisplayContacts(Tail(list), Append(rows, <<c.name, c.title, c.email>>))
         IN [tree |-> rest.tree, log |-> <<E("insert", "ok")>> \o rest.log]

\* Variant: the old rows are not deleted.
ClearTreeSkip(rows) == [tree |-> rows, log |-> <<E("delete", "all")>>]

\* for item in self.tree.get_children(): self.tree.delete(item)
ClearTree(rows) == [tree |-> <<>>, log |-> <<E("delete", "all")>>]

\* self.url.get().strip()
ReadUrl(url) ==
    [url |-> Strip(url), log |-> <<E("url", IF Strip(url) = <<>> THEN "blank" ELSE "text")>>]

\* fetch_contacts: [tree, db, log, raised, contacts].
FetchContactsRun(url, resp, fault, rows, store) ==
    LET entry == ReadUrl(url)
    IN
    IF entry.url = <<>>
    THEN [tree |-> rows, db |-> store, raised |-> "none", contacts |-> None,
          log |-> entry.log \o <<E("showwarning", "InputError")>>]
    ELSE
    LET scrape == ScrapeContacts(resp)
    IN IF scrape.ret.isNone
       THEN [tree |-> rows, db |-> store, raised |-> "none", contacts |-> None,
             log |-> entry.log \o scrape.log]
       ELSE IF scrape.ret.items = <<>>
       THEN [tree |-> rows, db |-> store, raised |-> "none", contacts |-> scrape.ret,
             log |-> entry.log \o scrape.log \o <<E("showinfo", "Result")>>]
       ELSE
       LET cleared == ClearTree(rows)
           shown == DisplayContacts(scrape.ret.items, cleared.tree)
           saved == SaveToDatabase(scrape.ret.items, store, fault)
       IN [tree |-> shown.tree, db |-> saved.db, raised |-> saved.raised,
           contacts |-> scrape.ret,
           log |-> entry.log \o scrape.log \o cleared.log \o shown.log \o saved.log
                   \o IF saved.raised = "none" THEN <<E("showinfo", "Success")>> ELSE <<>>]

-----------------------------------------------------------------------------
(* The actions *)

Init ==
    /\ phase = "off"
    /\ tree = <<>>
    /\ db = [hasTable |-> FALSE, rows |-> <<>>]
    /\ op = "none"
    /\ log = <<>>
    /\ raised = "none"
    /\ contacts = None
    /\ html = <<>>
    /\ parsed = FALSE
    /\ result = <<>>
    /\ patterns = <<>>

\* main: ContactApp(root) calls setup_database and builds the widgets, then
\* mainloop; an exception out of setup_database ends the program.
Launch ==
    /\ phase = "off"
    /\ \E fault \in SetupFaults :
          \E run \in {SetupDatabase(db, fault)} :
             /\ db' = run.db
             /\ log' = run.log
             /\ raised' = run.raised
             /\ phase' = IF run.raised = "none" THEN "idle" ELSE "off"
    /\ op' = "setup"
    /\ tree' = <<>>
    /\ contacts' = None
    /\ UNCHANGED parseVars

\* What one press of the fetch button meets: the text of the URL entry, what
\* the GET does and where sqlite3 fails.  Nothing is requested for a blank URL
\* and nothing is saved unless contacts were found.
FetchInputs ==
    {[url |-> u, resp |-> NoResponse, fault |-> NoFault] : u \in {u \in Urls : Strip(u) = <<>>}}
    \cup
    UNION {{[url |-> u, resp |-> r, fault |-> f] : f \in SaveFaults(r.contacts)} :
              u \in {u \in Urls : Strip(u) # <<>>}, r \in Responses}

\* One press of the fetch button.
FetchContacts ==
    /\ phase = "idle"
    /\ \E in \in FetchInputs :
          \E run \in {FetchContactsRun(in.url, in.resp, in.fault, tree, db)} :
             /\ tree' = run.tree
             /\ db' = run.db
             /\ log' = run.log
             /\ raised' = run.raised
             /\ contacts' = run.contacts
    /\ op' = "fetch"
    /\ UNCHANGED <<phase, parseVars>>

\* The window is closed: mainloop returns and the program ends.
Quit ==
    /\ phase = "idle"
    /\ phase' = "off"
    /\ op' = "quit"
    /\ tree' = <<>>
    /\ log' = <<>>
    /\ raised' = "none"
    /\ contacts' = None
    /\ UNCHANGED <<db, parseVars>>

Next == Launch \/ FetchContacts \/ Quit

Spec == Init /\ [][Next]_vars

\* parse_contacts on its own, over every page.
InitParse ==
    /\ phase = "off"
    /\ tree = <<>>
    /\ db = [hasTable |-> FALSE, rows |-> <<>>]
    /\ op = "none"
    /\ log = <<>>
    /\ raised = "none"
    /\ contacts = None
    /\ html \in Pages
    /\ parsed = FALSE
    /\ result = <<>>
    /\ patterns = <<>>

Parse ==
    /\ ~parsed
    /\ parsed' = TRUE
    /\ result' = ParseRun(html).contacts
    /\ patterns' = ParseRun(html).patterns
    /\ UNCHANGED <<html, appVars>>

NextParse == Parse

SpecParse == InitParse /\ [][NextParse]_vars

-----------------------------------------------------------------------------
(* Properties *)

Emails(rows) == {rows[i].email : i \in 1..Len(rows)}

At(l, ev) == {i \in 1..Len(l) : l[i].ev = ev}

Has(l, ev, arg) == \E i \in 1..Len(l) : l[i] = E(ev, arg)

Shown(l, kind) == {i \in 1..Len(l) : l[i].ev = kind}

\* A store-level failure was notified.
StoreFailed(l) == Has(l, "showerror", "DbError")

UniqueEmail == \A i, j \in 1..Len(db.rows) : i # j => db.rows[i].email # db.rows[j].email

\* A fetch whose persist ran to its commit.
Persisted ==
    /\ op' = "fetch"
    /\ ~contacts'.isNone
    /\ contacts'.items # <<>>
    /\ ~StoreFailed(log')

\* The stored contacts with this email.
WithEmail(rows, mail) == {r \in {rows[k] : k \in 1..Len(rows)} : r.email = mail}

DupNoOp ==
    /\ op' \in {"setup", "fetch"} =>
          /\ \A mail \in Emails(db.rows) : WithEmail(db'.rows, mail) = WithEmail(db.rows, mail)
          /\ Shown(log', "showerror") # {} =>
                \E i \in 1..Len(log') : log'[i].arg \in {"OperationalError"} \cup Failures
    /\ Persisted =>
          /\ (\A i \in 1..Len(contacts'.items) : contacts'.items[i].email \in Emails(db.rows))
                => db' = db
          /\ Shown(log', "showerror") = {}
          /\ raised' = "none"

\* C1: whatever initialize and persist calls were made, no two stored contacts
\* have the same email; no call changes the stored contact of an email already
\* stored; an error is shown only for a failed GET or an sqlite3 failure other
\* than the uniqueness violation, so a persist that meets no such failure shows
\* none, and leaves the store as it was when the whole batch was stored before.
C1_UniqueEmailDupNoOp == []UniqueEmail /\ [][DupNoOp]_vars

\* A committed persist that met a stored email, with two contacts in the store.
C1_Witness ==
    /\ op = "fetch"
    /\ Has(log, "execute", "IntegrityError")
    /\ Has(log, "commit", "ok")
    /\ Len(db.rows) = 2

BatchStored ==
    Persisted =>
       LET b == contacts'.items
           old == db.rows
           new == db'.rows
       IN /\ \A i \in 1..Len(b) :
                (b[i].email \notin Emails(old) /\ \A j \in 1..(i - 1) : b[j].email # b[i].email)
                => \E k \in 1..Len(new) :
                      /\ new[k].name = b[i].name
                      /\ new[k].title = b[i].title
                      /\ new[k].email = b[i].email
          /\ Len(new) = Len(old) + Cardinality(Emails(b) \ Emails(old))
          /\ SubSeq(new, 1, Len(old)) = old
          /\ Cardinality(At(log', "execute")) = Len(b)
          /\ Shown(log', "showerror") = {}

\* C2: a persist that meets no store-level failure stores every record of the
\* batch whose email was neither stored before nor earlier in the batch, with
\* its own name and title, attempts every record (a duplicate does not end the
\* batch), adds nothing for a duplicate, leaves the contacts stored before as
\* they were and shows no error.
C2_BatchStored == [][BatchStored]_vars

\* A duplicate was skipped and a later record of the same batch was stored.
C2_Witness ==
    /\ op = "fetch"
    /\ Has(log, "commit", "ok")
    /\ \E i, j \in 1..Len(log) :
          i < j /\ log[i] = E("execute", "IntegrityError") /\ log[j] = E("execute", "ok")

\* C3: a store-level failure in initialize or persist does not leave the call:
\* the call returns after exactly one storage-error notification.
C3_StoreFailureReturns ==
    (op \in {"setup", "fetch"} /\ StoreFailed(log))
    => (raised = "none" /\ Cardinality(Shown(log, "showerror")) = 1)

\* C4: after a fetch that succeeded and found no record, an information
\* notification was shown (no error) and the display is empty.
C4_EmptyResultEmptiesDisplay ==
    (op = "fetch" /\ ~contacts.isNone /\ contacts.items = <<>>)
    => /\ Has(log, "showinfo", "Result")
       /\ Shown(log, "showerror") = {}
       /\ tree = <<>>

\* C5: a fetch that ends in a store failure during persist leaves the display
\* rows and the stored contacts as they were before it.
C5_StoreFailureLeavesState ==
    [][(op' = "fetch" /\ StoreFailed(log')) => (tree' = tree /\ db' = db)]_vars

\* The notification categories that fit a failure of the GET.
Category(exc) ==
    CASE exc = "HTTPError" -> {"HttpError"}
      [] exc = "ConnectionError" -> {"ConnectionError"}
      [] exc = "ConnectTimeout" -> {"ConnectionError", "TimeoutError"}
      [] exc = "ReadTimeout" -> {"TimeoutError"}
      [] OTHER -> {"RequestError"}

FetchFailureFlow ==
    op' = "fetch" =>
       /\ log'[1] = E("url", "blank") =>
             /\ log' = <<E("url", "blank"), E("showwarning", "InputError")>>
             /\ tree' = tree /\ db' = db /\ raised' = "none"
       /\ (\E i \in At(log', "get") : log'[i].arg # "ok") =>
             /\ Len(log') = 3
             /\ log'[1] = E("url", "text")
             /\ log'[2].ev = "get" /\ log'[2].arg \in Failures
             /\ log'[3].ev = "showerror" /\ log'[3].arg \in Category(log'[2].arg)
             /\ contacts'.isNone
             /\ tree' = tree /\ db' = db /\ raised' = "none"

\* C6: a fetch whose GET fails shows exactly one error notification, of the
\* category of the failure, and runs nothing else: no parse, no change of the
\* display, no persist, so the display rows and the stored contacts are those
\* from before; a blank URL shows one warning and sends no request.
C6_FetchFailureFlow == [][FetchFailureFlow]_vars

\* A read timeout was notified while rows are on display and contacts stored.
C6_Witness ==
    /\ op = "fetch"
    /\ log = <<E("url", "text"), E("get", "ReadTimeout"), E("showerror", "TimeoutError")>>
    /\ tree # <<>>
    /\ db.rows # <<>>

\* The tokens of type t, in page order.
Of(page, t) == SelectSeq(page, LAMBDA tok : tok.t = t)

\* Every container of the page has a link that shows its own address.
AllContainersMatch(page) ==
    /\ Of(page, "div_teacher") # <<>>
    /\ \A i \in 1..Len(page) : page[i].t = "a_mailto" => page[i].a = page[i].b

\* The contacts of the containers, in page order.
ContainerContacts(page) ==
    [i \in 1..Len(Of(page, "div_teacher")) |->
        MakeContact(Of(page, "p_name")[i].a, Of(page, "p_title")[i].a, Of(page, "a_mailto")[i].a)]

\* C7: parse_contacts applies the table pattern exactly when the teacher
\* pattern found nothing; when the teacher pattern finds a record the result is
\* its records alone, in page order (table rows of the page add nothing), and
\* when neither pattern finds anything the result is the empty sequence.
C7_FallbackExclusive ==
    parsed =>
       /\ (\E i \in 1..Len(patterns) : patterns[i] = "table") <=> (TeacherMatches(html) = <<>>)
       /\ TeacherMatches(html) # <<>> => result = TeacherMatches(html)
       /\ AllContainersMatch(html) => result = ContainerContacts(html)
       /\ (TeacherMatches(html) = <<>> /\ TableMatches(html) = <<>>) => result = <<>>

\* A page with a container and a table row, parsed to the container's record.
C7_Witness ==
    /\ parsed
    /\ Of(html, "div_teacher") # <<>>
    /\ Of(html, "tr") # <<>>
    /\ TableMatches(html) # <<>>
    /\ patterns = <<"teacher">>
    /\ Len(result) = 1

\* A text that is not empty and has no white space at either end.
Trimmed(s) == s # <<>> /\ s[1] \notin Whitespace /\ s[Len(s)] \notin Whitespace

\* C8: the three fields of every record returned by the extractor, of every row
\* on display and of every stored contact are non-empty and trimmed.
C8_NoEmptyField ==
    /\ \A i \in 1..Len(contacts.items) :
          Trimmed(contacts.items[i].name) /\ Trimmed(contacts.items[i].title)
          /\ Trimmed(contacts.items[i].email)
    /\ \A i \in 1..Len(tree) : \A f \in 1..3 : Trimmed(tree[i][f])
    /\ \A i \in 1..Len(db.rows) :
          Trimmed(db.rows[i].name) /\ Trimmed(db.rows[i].title) /\ Trimmed(db.rows[i].email)

\* A blank name, a blank title and a blank email were each replaced by N/A, on
\* display and in the store, beside fields that were trimmed.
C8_Witness ==
    /\ \E i \in 1..Len(tree) : tree[i][1] = NA /\ tree[i][2] = <<"t">>
    /\ \E i \in 1..Len(tree) : tree[i][2] = NA /\ tree[i][1] = <<"x">>
    /\ \E i \in 1..Len(db.rows) : db.rows[i].email = NA
    /\ \E i \in 1..Len(db.rows) : db.rows[i].name = NA

\* C9: after a fetch that found records the display holds exactly these
\* records, in order; the rows were deleted once, before the first insert, and
\* the store was opened after the last insert.
C9_DisplayIsBatch ==
    (op = "fetch" /\ ~contacts.isNone /\ contacts.items # <<>>) =>
       /\ tree = [i \in 1..Len(contacts.items) |->
                     <<contacts.items[i].name, contacts.items[i].title, contacts.items[i].email>>]
       /\ Cardinality(At(log, "delete")) = 1
       /\ Cardinality(At(log, "insert")) = Len(contacts.items)
       /\ Cardinality(At(log, "connect")) = 1
       /\ \A d \in At(log, "delete"), i \in At(log, "insert"), c \in At(log, "connect") :
             d < i /\ i < c

\* One row on display after a fetch while the store holds two contacts: an
\* earlier fetch showed another record.
C9_Witness ==
    /\ op = "fetch"
    /\ ~contacts.isNone
    /\ Len(tree) = 1
    /\ Len(db.rows) = 2
    /\ Has(log, "execute", "IntegrityError")

\* C10: no success notification follows a storage-error notification of the
\* same fetch; the success notification is shown only when the batch was
\* committed.
C10_NoSuccessAfterStoreError ==
    op = "fetch" =>
       /\ ~\E i, j \in 1..Len(log) :
              i < j /\ log[i] = E("showerror", "DbError") /\ log[j] = E("showinfo", "Success")
       /\ Has(log, "showinfo", "Success") => Has(log, "commit", "ok")

====
